---- MODULE Spec2Model ----
(***************************************************************************)
(* Model of the HTU21D humidity/temperature driver                         *)
(* (src/Particle/GreenMcp/lib/SparkFunHTU21D.cpp).                         *)
(*                                                                         *)
(* Four specifications share the variables below:                          *)
(*   Spec     the driver's public operations (readHumidity,                *)
(*            readTemperature, setResolution) against a transport that     *)
(*            answers each poll with 0..3 bytes;                           *)
(*   SpecReg  setResolution from every 8-bit user-register value;          *)
(*   SpecCRC  checkCRC executed iteration by iteration on bounded inputs;  *)
(*   SpecBus  Spec with a second caller that writes commands to the same   *)
(*            bus handle while a read is polling (the driver has no lock). *)
(*                                                                         *)
(* Bytes are naturals 0..255, uint16_t 0..65535, uint32_t 0..2^32-1.       *)
(* Floats are kept as exact fractions num/den; float rounding is not       *)
(* modelled.                                                               *)
(***************************************************************************)
EXTENDS Integers, Naturals, Sequences, FiniteSets, TLC

\* ------------------------------------------------------------------------
\* Bounds of the model (not program constants)
\* ------------------------------------------------------------------------
\* transport words 0..MaxWord are offered besides the sample words
MaxWord == 3
\* checksum error patterns 0..MaxErr are XORed on the sensor's checksum
MaxErr == 3
\* setResolution arguments 0..MaxLevel are offered besides the bit patterns
MaxLevel == 3
\* checkCRC messages 0..MaxMessage are offered besides the sample words
MaxMessage == 7

\* ------------------------------------------------------------------------
\* Program constants
\* ------------------------------------------------------------------------
MAX_WAIT == 100
DELAY_INTERVAL == 10
MAX_COUNTER == MAX_WAIT \div DELAY_INTERVAL
ERROR_I2C_TIMEOUT == 998
ERROR_BAD_CRC == 999
\* 0x988000
SHIFTED_DIVISOR == 9994240

\* command bytes are symbolic: their values live in SparkFunHTU21D.h
TRIGGER_HUMD_MEASURE_NOHOLD == "TRIGGER_HUMD_MEASURE_NOHOLD"
TRIGGER_TEMP_MEASURE_NOHOLD == "TRIGGER_TEMP_MEASURE_NOHOLD"
READ_USER_REG == "READ_USER_REG"
WRITE_USER_REG == "WRITE_USER_REG"

\* ------------------------------------------------------------------------
\* C integer operators on naturals
\* ------------------------------------------------------------------------
RECURSIVE BitAnd(_, _)
BitAnd(a, b) ==
  IF a = 0 \/ b = 0 THEN 0
  ELSE (a % 2) * (b % 2) + 2 * BitAnd(a \div 2, b \div 2)

RECURSIVE BitOr(_, _)
BitOr(a, b) ==
  IF a = 0 THEN b
  ELSE IF b = 0 THEN a
  ELSE (IF a % 2 = 1 \/ b % 2 = 1 THEN 1 ELSE 0) + 2 * BitOr(a \div 2, b \div 2)

RECURSIVE BitXor(_, _)
BitXor(a, b) ==
  IF a = 0 THEN b
  ELSE IF b = 0 THEN a
  ELSE ((a + b) % 2) + 2 * BitXor(a \div 2, b \div 2)

\* bit k of a
Bit(a, k) == (a \div (2 ^ k)) % 2

\* ------------------------------------------------------------------------
\* checkCRC
\* ------------------------------------------------------------------------
\* remainder = (uint32_t)message << 8; remainder |= check_value
\* (a uint16_t shifted by 8 is below 2^24: the 32-bit width cuts nothing)
CrcRemainder0(message, check_value) ==
  BitOr(message * 256, check_value)

\* mutant: the scan starts one position too low
CrcStep_LowBit(remainder, divsor, i) ==
  IF BitAnd(remainder, 2 ^ (22 - i)) # 0 THEN BitXor(remainder, divsor)
  ELSE remainder

\* if (remainder & (uint32_t)1 << (23 - i)) remainder ^= divsor
CrcStep(remainder, divsor, i) ==
  IF BitAnd(remainder, 2 ^ (23 - i)) # 0 THEN BitXor(remainder, divsor)
  ELSE remainder

\* for (int i = 0 ; i < 16 ; i++) { ...; divsor >>= 1; }
RECURSIVE CrcLoop(_, _, _)
CrcLoop(remainder, divsor, i) ==
  IF i < 16 THEN CrcLoop(CrcStep(remainder, divsor, i), divsor \div 2, i + 1)
  ELSE remainder

\* return (byte)remainder
checkCRC(message, check_value) ==
  CrcLoop(CrcRemainder0(message, check_value), SHIFTED_DIVISOR, 0) % 256

\* ------------------------------------------------------------------------
\* The sensor's side: forward CRC-8, polynomial x^8 + x^5 + x^4 + 1,
\* MSB first, initial value 0 (spec section 4.2, datasheet)
\* ------------------------------------------------------------------------
Crc8Shift(crc) ==
  IF crc >= 128 THEN BitXor((crc * 2) % 256, 49) ELSE crc * 2

RECURSIVE Crc8Bits(_, _)
Crc8Bits(crc, n) == IF n = 0 THEN crc ELSE Crc8Bits(Crc8Shift(crc), n - 1)

SensorCRC8(word) ==
  Crc8Bits(BitXor(Crc8Bits(BitXor(0, word \div 256), 8), word % 256), 8)

\* ------------------------------------------------------------------------
\* Unit conversion (exact fractions num/den)
\* ------------------------------------------------------------------------
HumidityDen == 65536
TemperatureDen == 25 * 65536

\* rh = raw * (125.0 / 65536.0) - 6.0
HumidityOf(raw) == [num |-> raw * 125 - 6 * 65536, den |-> HumidityDen]

\* t = raw * (175.72 / 65536.0) - 46.85, with 175.72 = 4393/25, 46.85 = 4685/100
TemperatureOf(raw) ==
  [num |-> raw * 4393 - 4685 * 16384, den |-> TemperatureDen]

\* return(rawHumidity): the uint16_t code converted to float
FloatOf(code, den) == [num |-> code * den, den |-> den]

NoOut == [num |-> 0, den |-> 0]

\* ------------------------------------------------------------------------
\* Inputs offered by the environment
\* ------------------------------------------------------------------------
\* 0x00DC, 0x683A, 0x4E85 (datasheet), 998, 999 (the error codes), 0xFFFF
SampleWords == {220, 26682, 20101, 998, 999, 65535}

Words == (0 .. MaxWord) \cup SampleWords

\* a 3-byte answer of the sensor: MSB, LSB and the checksum, possibly
\* corrupted on the wire by the error pattern e (e = 0: intact)
Responses ==
  { <<w \div 256, w % 256, BitXor(SensorCRC8(w), e)>> :
      w \in Words, e \in 0 .. MaxErr }

\* 0x80, 0x81 (bit patterns), 0x7E, 0xFF (bits outside the resolution bits)
ResolutionArgs == (0 .. MaxLevel) \cup {128, 129, 126, 255}

CrcMessages == (0 .. MaxMessage) \cup SampleWords

\* ------------------------------------------------------------------------
\* State
\* ------------------------------------------------------------------------
VARIABLES
  pc,            \* position of the driver: idle, poll, ret; crc_* in SpecCRC
  op,            \* the public operation last called
  cmd,           \* readValue's argument
  counter,       \* readValue's loop counter (byte)
  toRead,        \* readValue's toRead (byte)
  rxBuf,         \* the transport's receive buffer, consumed by read()
  wire,          \* bus traffic of the current operation, in order
  elapsed,       \* time spent in delay() by the current operation
  threeSeen,     \* some poll of the current operation returned exactly 3
  frame,         \* <<msb, lsb, checksum>> once fetched, else << >>
  crcRet,        \* value returned by the last checkCRC call, -1 if none
  rv,            \* value returned by readValue, -1 if none
  status,        \* the return statement readValue left through
  convIn,        \* raw value the conversion formula was applied to, else -1
  out,           \* float returned by readHumidity / readTemperature
  userRegister,  \* the sensor's user register
  resolution,    \* setResolution's argument as passed, -1 if none
  regBefore,     \* user register when setResolution was called, -1 if none
  regWritten,    \* value setResolution wrote, -1 if none
  prevResolution, \* argument of the setResolution call right before, or -1
  sensorCmd,     \* the command the sensor received last, "" if none
  rxCmd,         \* the command the bytes of rxBuf answer, "" if none
  interleaved,   \* another caller's command reached the sensor during
                 \* the current operation
  message,       \* checkCRC's message_from_sensor
  check_value,   \* checkCRC's check_value_from_sensor
  remainder,     \* checkCRC's remainder
  divsor,        \* checkCRC's divsor
  i              \* checkCRC's loop index

readVars == <<cmd, counter, toRead, elapsed, threeSeen, frame, crcRet, rv,
              status, convIn, out>>
regVars == <<resolution, regBefore, regWritten, prevResolution>>
crcVars == <<message, check_value, remainder, divsor, i>>
busVars == <<sensorCmd, rxCmd, interleaved>>
vars == <<pc, op, rxBuf, wire, userRegister, readVars, regVars, crcVars,
          busVars>>

\* the variables a call leaves blank until it sets them
BlankRead ==
  /\ cmd = "" /\ counter = 0 /\ toRead = 0 /\ elapsed = 0
  /\ threeSeen = FALSE /\ frame = << >> /\ crcRet = -1 /\ rv = -1
  /\ status = "none" /\ convIn = -1 /\ out = NoOut

BlankReg ==
  resolution = -1 /\ regBefore = -1 /\ regWritten = -1 /\ prevResolution = -1

BlankCrc ==
  message = 0 /\ check_value = 0 /\ remainder = 0 /\ divsor = 0 /\ i = 0

BlankBus == sensorCmd = "" /\ rxCmd = "" /\ interleaved = FALSE

\* the user register at power on: resolution bits 0/0 (0x02 in the datasheet)
PowerOnRegister == 2

Init ==
  /\ pc = "idle" /\ op = "none" /\ rxBuf = << >> /\ wire = << >>
  /\ userRegister = PowerOnRegister
  /\ BlankRead /\ BlankReg /\ BlankCrc /\ BlankBus

\* ------------------------------------------------------------------------
\* The transport (Wire)
\* ------------------------------------------------------------------------
\* read(): next buffered byte, or -1 cast to byte when the buffer is empty
WireRead(buf) == IF buf = << >> THEN 255 ELSE Head(buf)
WireRest(buf) == IF buf = << >> THEN << >> ELSE Tail(buf)

\* beginTransmission; write(bytes...); endTransmission
Transmission(bytes) == <<"write", bytes>>
Delay(ms) == <<"delay", ms>>
RequestFrom(n) == <<"requestFrom", n>>

\* ------------------------------------------------------------------------
\* readValue
\* ------------------------------------------------------------------------
\* mutant: the loop gives up one poll early
LoopCondition_Short ==
  counter < MAX_COUNTER - 1 /\ toRead # 3

\* mutant: the loop does not stop on a complete answer
LoopCondition_NoStop ==
  counter < MAX_COUNTER

\* counter < MAX_COUNTER && toRead != 3
LoopCondition ==
  counter < MAX_COUNTER /\ toRead # 3

\* entry of readValue(c) from the public operation o: the trigger write and
\* the loop initialisation
ReadValueCall(o, c) ==
  /\ pc = "idle"
  /\ pc' = "poll" /\ op' = o /\ cmd' = c
  /\ wire' = << Transmission(<<c>>) >>
  /\ counter' = 0 /\ toRead' = 0 /\ elapsed' = 0
  /\ threeSeen' = FALSE /\ frame' = << >> /\ crcRet' = -1 /\ rv' = -1
  /\ status' = "none" /\ convIn' = -1 /\ out' = NoOut
  /\ resolution' = -1 /\ regBefore' = -1 /\ regWritten' = -1
  /\ prevResolution' = -1
  /\ sensorCmd' = c /\ interleaved' = FALSE
  /\ UNCHANGED <<rxBuf, rxCmd, userRegister, crcVars>>

\* mutant: readHumidity triggers the temperature measurement
ReadHumidity_TempCmd ==
  ReadValueCall("readHumidity", TRIGGER_TEMP_MEASURE_NOHOLD)

ReadHumidity == ReadValueCall("readHumidity", TRIGGER_HUMD_MEASURE_NOHOLD)

ReadTemperature == ReadValueCall("readTemperature", TRIGGER_TEMP_MEASURE_NOHOLD)

\* mutant: the trigger is sent again in every iteration
PollTraffic_Retrigger ==
  << Transmission(<<cmd>>), Delay(DELAY_INTERVAL), RequestFrom(3) >>

\* the bus traffic of one iteration: delay(DELAY_INTERVAL); requestFrom(.., 3)
PollTraffic ==
  << Delay(DELAY_INTERVAL), RequestFrom(3) >>

\* one iteration of the loop: delay, requestFrom(3), counter++
\* the transport has n of the response's bytes ready
Poll ==
  /\ pc = "poll"
  /\ LoopCondition
  /\ \E n \in 0 .. 3, resp \in Responses :
       /\ rxBuf' = SubSeq(resp, 1, n)
       /\ toRead' = n
       /\ threeSeen' = (threeSeen \/ n = 3)
  /\ counter' = (counter + 1) % 256
  /\ elapsed' = elapsed + DELAY_INTERVAL
  /\ wire' = wire \o PollTraffic
  /\ rxCmd' = sensorCmd
  /\ UNCHANGED <<pc, op, cmd, frame, crcRet, rv, status, convIn, out,
                 userRegister, regVars, crcVars, sensorCmd, interleaved>>

\* if (counter == MAX_COUNTER) return (ERROR_I2C_TIMEOUT)
ReadValueTimeout ==
  /\ pc = "poll"
  /\ ~LoopCondition
  /\ counter = MAX_COUNTER
  /\ pc' = "ret" /\ rv' = ERROR_I2C_TIMEOUT /\ status' = "timeout"
  /\ UNCHANGED <<op, cmd, counter, toRead, rxBuf, wire, elapsed, threeSeen,
                 frame, crcRet, convIn, out, userRegister, regVars, crcVars,
                 busVars>>

\* (uint16_t) msb << 8 | (uint16_t) lsb
RawValue(msb, lsb) == BitOr((msb * 256) % 65536, lsb)

\* mutant: the status bits are returned as received
ClearStatus_Keep(rawValue) == rawValue

\* rawValue & 0xFFFC
ClearStatus(rawValue) == BitAnd(rawValue, 65532)

\* mutant: the checksum is not looked at
CrcFailed_Never(crc) == FALSE

\* checkCRC(rawValue, checksum) != 0
CrcFailed(crc) == crc # 0

\* the three read() calls, the CRC check and the return
ReadValueFetch ==
  /\ pc = "poll"
  /\ ~LoopCondition
  /\ counter # MAX_COUNTER
  /\ LET msb == WireRead(rxBuf)
         lsb == WireRead(WireRest(rxBuf))
         checksum == WireRead(WireRest(WireRest(rxBuf)))
         rawValue == RawValue(msb, lsb)
         crc == checkCRC(rawValue, checksum)
     IN  /\ frame' = <<msb, lsb, checksum>>
         /\ rxBuf' = WireRest(WireRest(WireRest(rxBuf)))
         /\ crcRet' = crc
         /\ IF CrcFailed(crc)
            THEN rv' = ERROR_BAD_CRC /\ status' = "badcrc"
            ELSE rv' = ClearStatus(rawValue) /\ status' = "ok"
  /\ pc' = "ret"
  /\ UNCHANGED <<op, cmd, counter, toRead, wire, elapsed, threeSeen, convIn,
                 out, userRegister, regVars, crcVars, busVars>>

\* rawX == ERROR_I2C_TIMEOUT || rawX == ERROR_BAD_CRC
IsErrorCode(raw) == raw = ERROR_I2C_TIMEOUT \/ raw = ERROR_BAD_CRC

\* readHumidity after readValue has returned
ReadHumidityReturn ==
  /\ pc = "ret" /\ op = "readHumidity"
  /\ IF IsErrorCode(rv)
     THEN out' = FloatOf(rv, HumidityDen) /\ convIn' = -1
     ELSE out' = HumidityOf(rv) /\ convIn' = rv
  /\ pc' = "idle"
  /\ UNCHANGED <<op, cmd, counter, toRead, rxBuf, wire, elapsed, threeSeen,
                 frame, crcRet, rv, status, userRegister, regVars, crcVars,
                 busVars>>

\* readTemperature after readValue has returned
ReadTemperatureReturn ==
  /\ pc = "ret" /\ op = "readTemperature"
  /\ IF IsErrorCode(rv)
     THEN out' = FloatOf(rv, TemperatureDen) /\ convIn' = -1
     ELSE out' = TemperatureOf(rv) /\ convIn' = rv
  /\ pc' = "idle"
  /\ UNCHANGED <<op, cmd, counter, toRead, rxBuf, wire, elapsed, threeSeen,
                 frame, crcRet, rv, status, userRegister, regVars, crcVars,
                 busVars>>

\* ------------------------------------------------------------------------
\* setResolution
\* ------------------------------------------------------------------------
\* mutant: the requested byte is ORed in without masking it
NewUserRegister_NoArgMask(reg, res) == BitOr(BitAnd(reg, 126), res)

\* mutant: the requested bits are XORed into the register as it is
NewUserRegister_Toggle(reg, res) == BitXor(reg, BitAnd(res, 129))

\* mutant: the keep mask is B01111111, bit 0 is not turned off
NewUserRegister_KeepBit0(reg, res) == BitOr(BitAnd(reg, 127), BitAnd(res, 129))

\* userRegister &= B01111110; resolution &= B10000001;
\* userRegister |= resolution
NewUserRegister(reg, res) == BitOr(BitAnd(reg, 126), BitAnd(res, 129))

\* setResolution(r): readUserRegister, the masking, writeUserRegister.
\* The sensor answers the register read with its user register (register
\* accesses are not polled and carry no checksum) and keeps the value written.
SetResolution ==
  /\ pc = "idle"
  /\ \E r \in ResolutionArgs :
       LET answer == << userRegister >>
           read == WireRead(answer)
           val == NewUserRegister(read, r)
       IN  /\ resolution' = r
           /\ regBefore' = userRegister
           /\ regWritten' = val
           /\ userRegister' = val
           /\ rxBuf' = WireRest(answer)
           /\ wire' = << Transmission(<<READ_USER_REG>>), RequestFrom(1),
                         Transmission(<<WRITE_USER_REG, val>>) >>
  /\ prevResolution' = resolution
  /\ sensorCmd' = WRITE_USER_REG /\ rxCmd' = READ_USER_REG
  /\ interleaved' = FALSE
  /\ op' = "setResolution"
  /\ cmd' = "" /\ counter' = 0 /\ toRead' = 0 /\ elapsed' = 0
  /\ threeSeen' = FALSE /\ frame' = << >> /\ crcRet' = -1 /\ rv' = -1
  /\ status' = "none" /\ convIn' = -1 /\ out' = NoOut
  /\ UNCHANGED <<pc, crcVars>>

\* ------------------------------------------------------------------------
\* checkCRC, one loop iteration per step
\* ------------------------------------------------------------------------
\* remainder and divsor are set up
CheckCrcEnter ==
  /\ pc = "crc_call"
  /\ remainder' = CrcRemainder0(message, check_value)
  /\ divsor' = SHIFTED_DIVISOR
  /\ i' = 0
  /\ pc' = "crc_loop"
  /\ UNCHANGED <<op, rxBuf, wire, userRegister, readVars, regVars, message,
                 check_value, busVars>>

\* the loop body
CheckCrcIterate ==
  /\ pc = "crc_loop"
  /\ i < 16
  /\ remainder' = CrcStep(remainder, divsor, i)
  /\ divsor' = divsor \div 2
  /\ i' = i + 1
  /\ UNCHANGED <<pc, op, rxBuf, wire, userRegister, readVars, regVars, message,
                 check_value, busVars>>

\* return (byte)remainder
CheckCrcReturn ==
  /\ pc = "crc_loop"
  /\ ~(i < 16)
  /\ crcRet' = remainder % 256
  /\ pc' = "crc_done"
  /\ UNCHANGED <<op, cmd, counter, toRead, rxBuf, wire, elapsed, threeSeen,
                 frame, rv, status, convIn, out, userRegister, regVars,
                 crcVars, busVars>>

\* ------------------------------------------------------------------------
\* Specifications
\* ------------------------------------------------------------------------
Next ==
  \/ ReadHumidity
  \/ ReadTemperature
  \/ SetResolution
  \/ Poll
  \/ ReadValueTimeout
  \/ ReadValueFetch
  \/ ReadHumidityReturn
  \/ ReadTemperatureReturn

Spec == Init /\ [][Next]_vars

\* setResolution from every user-register value
InitReg ==
  /\ pc = "idle" /\ op = "none" /\ rxBuf = << >> /\ wire = << >>
  /\ userRegister \in 0 .. 255
  /\ BlankRead /\ BlankReg /\ BlankCrc /\ BlankBus

NextReg == SetResolution

SpecReg == InitReg /\ [][NextReg]_vars

\* checkCRC on bounded messages and every checksum byte
InitCRC ==
  /\ pc = "crc_call" /\ op = "checkCRC" /\ rxBuf = << >> /\ wire = << >>
  /\ userRegister = PowerOnRegister
  /\ BlankRead /\ BlankReg /\ BlankBus
  /\ message \in CrcMessages /\ check_value \in 0 .. 255
  /\ remainder = 0 /\ divsor = 0 /\ i = 0

NextCRC ==
  \/ CheckCrcEnter
  \/ CheckCrcIterate
  \/ CheckCrcReturn

SpecCRC == InitCRC /\ [][NextCRC]_vars

\* the command bytes the driver writes
Commands ==
  {TRIGGER_HUMD_MEASURE_NOHOLD, TRIGGER_TEMP_MEASURE_NOHOLD, READ_USER_REG,
   WRITE_USER_REG}

\* a second caller of the driver on the same bus handle: its command write
\* reaches the sensor between this operation's trigger and its fetch
\* (nothing in readValue holds the bus across the polling loop)
OtherCommand ==
  /\ pc = "poll"
  /\ \E c \in Commands : sensorCmd' = c
  /\ interleaved' = TRUE
  /\ UNCHANGED <<pc, op, rxBuf, wire, userRegister, readVars, regVars,
                 crcVars, rxCmd>>

NextBus ==
  \/ Next
  \/ OtherCommand

SpecBus == Init /\ [][NextBus]_vars

\* ------------------------------------------------------------------------
\* Properties
\* ------------------------------------------------------------------------
IsRead == op \in {"readHumidity", "readTemperature"}

\* readValue has returned (and its caller may have returned too)
Returned == IsRead /\ (pc = "ret" \/ (pc = "idle" /\ status # "none"))

\* the 16-bit word of the fetched frame
FrameWord == frame[1] * 256 + frame[2]

\* C1: a measurement read reports Timeout if and only if none of the polls
\* it issued (the 1st through the 10th) returned exactly 3 bytes.
C1_TimeoutIffNoThreeBytes ==
  Returned => ((rv = ERROR_I2C_TIMEOUT) <=> ~threeSeen)

\* the wire of a read that polled n times: the trigger, then n times a delay
\* followed by a request for 3 bytes
PolledWire(n) ==
  << Transmission(<<cmd>>) >> \o
  [k \in 1 .. 2 * n |->
     IF k % 2 = 1 THEN Delay(DELAY_INTERVAL) ELSE RequestFrom(3)]

\* C2: if every poll returns a byte count other than 3, readValue ends after
\* exactly MAX_COUNTER = 10 polls, each preceded by one delay of 10 (100 in
\* total), and returns the Timeout code; once it has returned it issues no
\* further poll or trigger; while it polls, every step is one more poll and
\* the count of polls stays within the ceiling (the loop cannot go on).
C2_PollingTermination ==
  /\ [](Returned /\ ~threeSeen =>
          /\ counter = 10
          /\ elapsed = 100
          /\ wire = PolledWire(10)
          /\ rv = ERROR_I2C_TIMEOUT)
  /\ [][pc = "ret" => wire' = wire]_vars
  /\ [][pc = "poll" /\ pc' = "poll" =>
          /\ counter' = counter + 1
          /\ counter' <= 10
          /\ wire' = PolledWire(counter)']_vars

C2_Witness ==
  /\ pc = "ret" /\ ~threeSeen /\ toRead = 2
  /\ counter = MAX_COUNTER /\ rv = ERROR_I2C_TIMEOUT /\ elapsed = MAX_WAIT

\* C3 as stated: the value setResolution writes back differs from the
\* pre-call register value only in bits 7 and 1; bits 0, 2, 3, 4, 5 and 6
\* are unchanged.
C3_OnlyBits7And1Change ==
  regWritten # -1 =>
    \A k \in {0, 2, 3, 4, 5, 6} : Bit(regWritten, k) = Bit(regBefore, k)

\* C3 amended: the value setResolution writes back differs from the pre-call
\* register value only in bits 7 and 0; bits 1 to 6 are unchanged.
C3_OnlyBits7And0Change ==
  regWritten # -1 =>
    \A k \in 1 .. 6 : Bit(regWritten, k) = Bit(regBefore, k)

C3_Witness ==
  /\ regBefore = 2 /\ resolution = 255 /\ regWritten = 131
  /\ userRegister = 131

\* C4: checkCRC returns 0 for the datasheet vectors 0x00DC/0x79,
\* 0x683A/0x7C and 0x4E85/0x6B.
C4_DatasheetVectors ==
  (/\ pc = "crc_done"
   /\ <<message, check_value>> \in {<<220, 121>>, <<26682, 124>>, <<20101, 107>>})
  => crcRet = 0

C4_Witness ==
  pc = "crc_done" /\ message = 26682 /\ check_value = 124 /\ crcRet = 0

\* the 24-bit pair <<value, checksum>> with bit b flipped
FlipMessage(v, b) == IF b >= 8 THEN BitXor(v, 2 ^ (b - 8)) ELSE v
FlipCheck(c, b) == IF b < 8 THEN BitXor(c, 2 ^ b) ELSE c

\* C5: for a pair <<v, c>> that checkCRC accepts, flipping any single one of
\* the 24 bits (16 of v, 8 of c) gives a pair that checkCRC rejects.
C5_SingleBitErrorDetected ==
  (pc = "crc_done" /\ crcRet = 0) =>
    \A b \in 0 .. 23 :
      checkCRC(FlipMessage(message, b), FlipCheck(check_value, b)) # 0

C5_Witness ==
  pc = "crc_done" /\ crcRet = 0 /\ message = 65535

\* C6: the conversion formula is applied only to a raw value for which 3
\* bytes were received and checkCRC returned 0; when 3 bytes were fetched
\* and checkCRC returned non-zero, readValue returns ERROR_BAD_CRC and no
\* conversion is applied.
C6_NoInvalidConversion ==
  /\ convIn # -1 =>
       /\ threeSeen /\ frame # << >>
       /\ crcRet = 0
       /\ checkCRC(FrameWord, frame[3]) = 0
       /\ convIn \div 4 = FrameWord \div 4
  /\ (Returned /\ frame # << >> /\ crcRet # 0) =>
       /\ rv = ERROR_BAD_CRC
       /\ convIn = -1
       /\ pc = "idle" => out.num = ERROR_BAD_CRC * out.den

C6_Witness ==
  /\ pc = "idle" /\ op = "readTemperature" /\ frame = <<78, 133, 106>>
  /\ crcRet # 0 /\ rv = ERROR_BAD_CRC /\ convIn = -1

\* C7: the result on Timeout, the result on CRC mismatch and every result on
\* success are pairwise different: a successful readValue result is never
\* 998 or 999, the sentinel comparison never takes a CRC-valid reading for
\* an error, and no successful humidity or temperature equals 998 or 999.
C7_Distinguishable ==
  /\ ERROR_I2C_TIMEOUT # ERROR_BAD_CRC
  /\ status = "timeout" => rv = ERROR_I2C_TIMEOUT
  /\ status = "badcrc" => rv = ERROR_BAD_CRC
  /\ status = "ok" => rv \notin {ERROR_I2C_TIMEOUT, ERROR_BAD_CRC}
  /\ (pc = "idle" /\ status = "ok") =>
       /\ convIn = rv
       /\ out.num # ERROR_I2C_TIMEOUT * out.den
       /\ out.num # ERROR_BAD_CRC * out.den
  /\ (pc = "idle" /\ status = "timeout") =>
       out.num = ERROR_I2C_TIMEOUT * out.den
  /\ (pc = "idle" /\ status = "badcrc") =>
       out.num = ERROR_BAD_CRC * out.den

C7_Witness ==
  /\ pc = "idle" /\ op = "readHumidity" /\ status = "ok"
  /\ FrameWord = ERROR_I2C_TIMEOUT /\ convIn = 996

\* the 3 bytes the last poll made available
LastResponse == IF frame # << >> THEN frame ELSE rxBuf

\* C8: whenever a poll returns exactly 3 bytes [MSB, LSB, CS] with CS valid
\* for the word (MSB << 8) | LSB, the read succeeds, the CRC is checked on
\* the full word, and the raw value handed to conversion is the word with
\* its two status bits cleared.
C8_ValidFrameSucceeds ==
  (/\ Returned /\ threeSeen /\ Len(LastResponse) = 3
   /\ checkCRC(LastResponse[1] * 256 + LastResponse[2], LastResponse[3]) = 0)
  => /\ status = "ok"
     /\ crcRet = 0
     /\ rv = 4 * ((LastResponse[1] * 256 + LastResponse[2]) \div 4)
     /\ pc = "idle" => convIn = rv

\* C9: every raw value readValue returns as a success has its two
\* least-significant bits zero and its upper 14 bits equal to those of
\* (MSB << 8) | LSB.
C9_StatusBitsCleared ==
  status = "ok" => (rv % 4 = 0 /\ rv \div 4 = FrameWord \div 4)

C9_Witness ==
  pc = "ret" /\ status = "ok" /\ FrameWord = 65535 /\ rv = 65532

\* the two resolution bits of a register value: bit 7 and bit 0
ResBits(v) == <<Bit(v, 7), Bit(v, 0)>>

Levels == 0 .. 3

\* 0x00, 0x01, 0x80, 0x81
ResolutionPatterns == {0, 1, 128, 129}

\* C10 as stated: from the same initial register value, setResolution with
\* the levels 0, 1, 2 and 3 writes four pairwise different values of the
\* two resolution bits.
C10_LevelsSelectFourSettings ==
  (regWritten # -1 /\ resolution \in Levels) =>
    \A l \in Levels \ {resolution} :
      ResBits(regWritten) # ResBits(NewUserRegister(regBefore, l))

\* C10 amended: from the same initial register value, setResolution with
\* the argument bytes 0x00, 0x01, 0x80 and 0x81 writes four pairwise
\* different values of the two resolution bits (bits 7 and 0), the bit
\* pattern 0/0, 0/1, 1/0, 1/1 of the argument.
C10_PatternsSelectFourSettings ==
  (regWritten # -1 /\ resolution \in ResolutionPatterns) =>
    /\ ResBits(regWritten) = ResBits(resolution)
    /\ \A p \in ResolutionPatterns \ {resolution} :
         ResBits(regWritten) # ResBits(NewUserRegister(regBefore, p))

C10_Witness ==
  /\ regBefore = 59 /\ resolution = 128 /\ regWritten = 186

\* C11: checkCRC returns 0 exactly when the checksum is the CRC-8 of the two
\* message bytes (MSB first, polynomial 0x131, initial value 0, no
\* reflection, no final XOR); so exactly one of the 256 checksum bytes is
\* accepted for a value.
C11_AcceptsExactlyTheCrc8 ==
  pc = "crc_done" =>
    /\ (crcRet = 0) <=> (check_value = SensorCRC8(message))
    /\ crcRet = 0 =>
         Cardinality({c \in 0 .. 255 : checkCRC(message, c) = 0}) = 1

C11_Witness ==
  pc = "crc_done" /\ message = 20101 /\ check_value = 107 /\ crcRet = 0

\* the polls (requests for 3 bytes) of the current operation
PollCount == Cardinality({k \in DOMAIN wire : wire[k] = RequestFrom(3)})

\* C13: readValue issues at least 1 and at most 10 polls, none after a poll
\* that returned exactly 3 bytes, and counter never exceeds MAX_COUNTER.
C13_BoundedPolling ==
  /\ [](counter <= MAX_COUNTER)
  /\ [](IsRead => PollCount = counter)
  /\ [](Returned => (PollCount >= 1 /\ PollCount <= 10))
  /\ [][(IsRead /\ threeSeen) => PollCount' <= PollCount]_vars

C13_Witness ==
  /\ pc = "ret" /\ threeSeen /\ counter = 1 /\ status = "ok"
  /\ wire = PolledWire(1)

\* C14: readValue consumes bytes (the three read() calls) only when the most
\* recent poll returned exactly 3 bytes; a poll that returned 0, 1 or 2
\* bytes never leads to bytes consumed, a CRC check or a success.
C14_NoPartialSuccess ==
  /\ [](IsRead /\ (frame # << >> \/ crcRet # -1 \/ convIn # -1
                   \/ status \in {"ok", "badcrc"}) => toRead = 3)
  /\ [][(pc = "poll" /\ toRead # 3) =>
          /\ frame' = << >>
          /\ crcRet' = -1
          /\ status' \notin {"ok", "badcrc"}
          /\ (pc' = "ret" => rxBuf' = rxBuf)]_vars

C14_Witness ==
  /\ pc = "idle" /\ op = "readHumidity" /\ status = "timeout"
  /\ toRead = 1 /\ Len(rxBuf) = 1 /\ frame = << >> /\ crcRet = -1

\* (old & 0b01111110) | (argument & 0b10000001), by arithmetic
ExpectedRegister(old, arg) ==
  (old % 128) - (old % 2) + 128 * Bit(arg, 7) + Bit(arg, 0)

\* C15: the bus traffic of setResolution is, in this order and nothing else:
\* one write of the read-register command, one request for exactly 1 byte
\* (no checksum, no CRC check), one write of two bytes, the write-register
\* command and (old & 0b01111110) | (argument & 0b10000001).
C15_SetResolutionTraffic ==
  regWritten # -1 =>
    /\ wire = << <<"write", <<READ_USER_REG>> >>,
                 <<"requestFrom", 1>>,
                 <<"write", <<WRITE_USER_REG,
                              ExpectedRegister(regBefore, resolution)>> >> >>
    /\ crcRet = -1
    /\ elapsed = 0

C15_Witness ==
  /\ regBefore = 126 /\ resolution = 129
  /\ wire[3] = <<"write", <<WRITE_USER_REG, 255>> >>

\* C18: in checkCRC the remainder fits in 24 bits at loop entry, the divisor
\* in iteration i (0..15) is 0x988000 >> i with its leading 1 at bit 23 - i,
\* after iteration i the remainder bits 23 down to 23 - i are zero, and
\* after the 16 iterations the remainder is below 256, so the cast to byte
\* drops no set bit.
C18_CrcLoopInvariant ==
  /\ pc = "crc_loop" =>
       /\ i >= 0 /\ i <= 16
       /\ divsor = SHIFTED_DIVISOR \div (2 ^ i)
       /\ divsor \div (2 ^ (23 - i)) = 1
       /\ remainder < 2 ^ (24 - i)
  /\ pc = "crc_done" =>
       /\ i = 16
       /\ remainder < 256
       /\ crcRet = remainder

C18_Witness ==
  pc = "crc_loop" /\ i = 16 /\ message = 65535 /\ remainder = 172

\* the trigger command of the public read operations
TriggerOf(o) ==
  IF o = "readHumidity" THEN TRIGGER_HUMD_MEASURE_NOHOLD
  ELSE TRIGGER_TEMP_MEASURE_NOHOLD

\* C12: a measurement read performs exactly one write transmission, the
\* single trigger command byte, before the first poll; no other write is
\* issued (the trigger is never re-sent, on success or on failure), and
\* every poll is immediately preceded by one fixed delay.
C12_TriggerOrdering ==
  IsRead =>
    /\ Len(wire) >= 1
    /\ wire[1] = <<"write", <<TriggerOf(op)>> >>
    /\ \A k \in 2 .. Len(wire) : wire[k][1] # "write"
    /\ \A k \in DOMAIN wire :
         wire[k][1] = "requestFrom" =>
           /\ k >= 3
           /\ wire[k - 1] = <<"delay", DELAY_INTERVAL>>
           /\ wire[k - 2][1] # "delay"

C12_Witness ==
  /\ pc = "idle" /\ op = "readTemperature" /\ status = "badcrc"
  /\ counter = 3 /\ Len(wire) = 7

\* C17: with a sensor register that holds the last value written, calling
\* setResolution twice in a row with the same argument leaves the register
\* as the first call left it.
C17_SetResolutionIdempotent ==
  (resolution # -1 /\ prevResolution = resolution) =>
    (regWritten = regBefore /\ userRegister = regBefore)

C17_Witness ==
  /\ prevResolution = 255 /\ resolution = 255
  /\ regBefore = 131 /\ userRegister = 131

\* C16: when the operations on the bus handle are serialized (no other
\* command between an operation's trigger and its fetch), the 3 bytes a read
\* consumes answer that operation's own trigger command; with a second
\* caller's command in between this is not guaranteed (the state
\* C16_InterleavedMisframe is reachable).
C16_FramingWhenSerialized ==
  (IsRead /\ frame # << >> /\ ~interleaved) =>
    (rxCmd = TriggerOf(op) /\ rxCmd = cmd)

C16_Witness ==
  /\ pc = "idle" /\ op = "readTemperature" /\ status = "ok"
  /\ ~interleaved /\ rxCmd = TRIGGER_TEMP_MEASURE_NOHOLD
  /\ frame = <<104, 58, 124>>

\* a read that succeeds on the answer to another caller's command
C16_InterleavedMisframe ==
  /\ IsRead /\ status = "ok" /\ interleaved
  /\ frame # << >> /\ rxCmd # cmd

====
